---- MODULE Spec2Model ----
(***************************************************************************)
(* A model of wordypy_bot2.py: the Bot (candidate list, image decoding,    *)
(* candidate elimination) and the GameEngine (scoring, rendering, and the  *)
(* round loop of play()).                                                  *)
(*                                                                         *)
(* Words and hex colour codes are sequences of one-character strings, so   *)
(* that str.upper(), str.strip(), hex formatting and hex parsing are       *)
(* computed character by character.  A position i of the Python code       *)
(* (0-based) is position i+1 of the model's sequences.                     *)
(***************************************************************************)
EXTENDS Integers, Sequences, FiniteSets, TLC

\* ------------------------------------------------------------------ bounds

\* Length of the words of the exhaustive (small-alphabet) specifications.
PureLen == 2
\* Number of play() calls made on the one GameEngine of a behaviour.
MaxGames == 2

\* The alphabet of the exhaustive specifications.
Letters == {"A", "B", "C"}

\* ------------------------------------------------------- characters, str

LowerChars == <<"a","b","c","d","e","f","g","h","i","j","k","l","m",
                "n","o","p","q","r","s","t","u","v","w","x","y","z">>
UpperChars == <<"A","B","C","D","E","F","G","H","I","J","K","L","M",
                "N","O","P","Q","R","S","T","U","V","W","X","Y","Z">>

\* str.upper() on one character.
UpperChar(c) ==
    IF \E k \in 1..Len(LowerChars) : LowerChars[k] = c
    THEN UpperChars[CHOOSE k \in 1..Len(LowerChars) : LowerChars[k] = c]
    ELSE c

\* str.upper()
Upper(s) == [k \in 1..Len(s) |-> UpperChar(s[k])]

IsSpace(c) == c \in {" ", "\n", "\t", "\r"}

\* str.strip(): leading and trailing whitespace removed.
Strip(s) ==
    LET nonblank == {k \in 1..Len(s) : ~IsSpace(s[k])}
    IN  IF nonblank = {} THEN <<>>
        ELSE LET lo == CHOOSE k \in nonblank : \A m \in nonblank : k <= m
                 hi == CHOOSE k \in nonblank : \A m \in nonblank : k >= m
             IN  SubSeq(s, lo, hi)

\* `x in list` / `c in word`
In(x, s) == \E k \in 1..Len(s) : s[k] = x

Range(s) == {s[k] : k \in 1..Len(s)}

\* The word list read from a file: one cleaned line per line of the file.
LoadWords(file) == [k \in 1..Len(file) |-> Upper(Strip(file[k]))]

\* list.remove(x): the first occurrence only.
RemoveFirst(s, x) ==
    LET k == CHOOSE k \in 1..Len(s) : s[k] = x /\ \A m \in 1..(k-1) : s[m] # x
    IN  SubSeq(s, 1, k-1) \o SubSeq(s, k+1, Len(s))

\* ------------------------------------------------------------------ Letter

\* Letter(letter): both flags start False.
Letter(c) == [letter |-> c, in_word |-> FALSE, in_correct_place |-> FALSE]

is_in_word(l) == l.in_word

is_in_correct_place(l) == l.in_correct_place

\* ------------------------------------------------- DisplaySpecification

block_width == 80
block_height == 80
space_between_letters == 5

correct_location_color == <<"#","0","0","2","7","4","C">>
incorrect_location_color == <<"#","F","F","C","B","0","5">>
incorrect_color == <<"#","D","3","D","3","D","3">>
word_color == <<"#","F","F","F","F","F","F">>

\* The class defaults.
DisplaySpecification ==
    [block_width |-> block_width,
     block_height |-> block_height,
     space_between_letters |-> space_between_letters,
     correct_location_color |-> correct_location_color,
     incorrect_location_color |-> incorrect_location_color,
     incorrect_color |-> incorrect_color,
     word_color |-> word_color]

\* A caller-provided specification: other sizes, hex codes in lower case.
CustomSpecification ==
    [block_width |-> 100,
     block_height |-> 90,
     space_between_letters |-> 0,
     correct_location_color |-> <<"#","0","0","a","a","0","0">>,
     incorrect_location_color |-> <<"#","f","f","c","b","0","5">>,
     incorrect_color |-> <<"#","8","0","8","0","8","0">>,
     word_color |-> <<"#","0","0","0","0","0","0">>]

\* A caller-provided specification: the defaults with the colours of the
\* correct location and of the incorrect letter exchanged.
SwappedSpecification ==
    [DisplaySpecification EXCEPT !.correct_location_color = incorrect_color,
                                 !.incorrect_color = correct_location_color]

DisplaySpecs == {DisplaySpecification, CustomSpecification, SwappedSpecification}

\* ------------------------------------------------------------ hex colours

HexChars == <<"0","1","2","3","4","5","6","7","8","9",
              "a","b","c","d","e","f">>

\* int(c, 16) of one hex digit, either case.
HexVal(c) ==
    (CHOOSE k \in 1..16 : HexChars[k] = c \/ UpperChar(HexChars[k]) = c) - 1

\* PIL's reading of a "#rrggbb" colour string as an (R, G, B) tuple.
GetRgb(color) ==
    <<HexVal(color[2]) * 16 + HexVal(color[3]),
      HexVal(color[4]) * 16 + HexVal(color[5]),
      HexVal(color[6]) * 16 + HexVal(color[7])>>

\* f"{n:02x}": two lower-case hex digits.
Hex02(n) == <<HexChars[(n \div 16) + 1], HexChars[(n % 16) + 1]>>

\* Bot._tuple_to_str: the first three channels, formatted and upper-cased.
TupleToStr(pixels) ==
    Upper(<<"#">> \o Hex02(pixels[1]) \o Hex02(pixels[2]) \o Hex02(pixels[3]))

\* ------------------------------------------------------------------ images

FONT_SIZE == 50

\* ImageDraw's default ink on an RGB image: white.
InkColor == <<255, 255, 255>>

\* GameEngine._render_letter: a block of the colour of the letter's grade,
\* with the letter drawn around the block's centre (X, Y), anchor "mm".
RenderLetter(spec, letter) ==
    LET color == IF is_in_correct_place(letter) THEN spec.correct_location_color
                 ELSE IF is_in_word(letter) THEN spec.incorrect_location_color
                 ELSE spec.incorrect_color
    IN  [width |-> spec.block_width,
         height |-> spec.block_height,
         color |-> GetRgb(color),
         X |-> spec.block_width \div 2,
         Y |-> spec.block_height \div 2,
         text |-> letter.letter]

\* One pixel of a rendered block.  The glyph's ink lies within FONT_SIZE
\* pixels around the anchor; every pixel of that box is taken as ink.
BlockPixel(block, dx, dy) ==
    IF /\ 2 * dx >= 2 * block.X - FONT_SIZE /\ 2 * dx <= 2 * block.X + FONT_SIZE
       /\ 2 * dy >= 2 * block.Y - FONT_SIZE /\ 2 * dy <= 2 * block.Y + FONT_SIZE
    THEN InkColor
    ELSE block.color

\* GameEngine._format_results: the blocks pasted left to right on a canvas
\* of the word colour, curr_loc advancing by block width plus spacing.
FormatResults(spec, letters) ==
    [width |-> Len(letters) * spec.block_width
               + (Len(letters) - 1) * spec.space_between_letters,
     height |-> spec.block_height,
     background |-> GetRgb(spec.word_color),
     pasted |-> [k \in 1..Len(letters) |->
                   [at |-> (k - 1) * (spec.block_width + spec.space_between_letters),
                    block |-> RenderLetter(spec, letters[k])]]]

\* Image.getpixel((x, y)): the last block pasted over the pixel, else the
\* canvas.
GetPixel(img, x, y) ==
    LET over == {k \in 1..Len(img.pasted) :
                    /\ x >= img.pasted[k].at
                    /\ x < img.pasted[k].at + img.pasted[k].block.width
                    /\ y >= 0
                    /\ y < img.pasted[k].block.height}
    IN  IF over = {} THEN img.background
        ELSE LET k == CHOOSE k \in over : \A m \in over : m <= k
             IN  BlockPixel(img.pasted[k].block, x - img.pasted[k].at, y)

\* --------------------------------------------------------------------- Bot

SampleX == 5
SampleY == 5

\* A decoder that sets in_correct_place alone on the correct-location
\* colour.
GradeAtPlaceOnly(spec, guess, guess_image, sx, sy) ==
    [k \in 1..Len(guess) |->
        LET x == sx + (k - 1) * (spec.block_width + spec.space_between_letters)
            pixel_color_hex == TupleToStr(GetPixel(guess_image, x, sy))
        IN  IF pixel_color_hex = Upper(spec.correct_location_color)
            THEN [letter |-> guess[k], in_word |-> FALSE, in_correct_place |-> TRUE]
            ELSE IF pixel_color_hex = Upper(spec.incorrect_location_color)
            THEN [letter |-> guess[k], in_word |-> TRUE, in_correct_place |-> FALSE]
            ELSE Letter(guess[k])]

\* The grading of the guess's letters by the colour of the pixel at
\* (sx, sy) of each letter's block.
GradeAt(spec, guess, guess_image, sx, sy) ==
    [k \in 1..Len(guess) |->
        LET x == sx + (k - 1) * (spec.block_width + spec.space_between_letters)
            y == sy
            pixel_color_hex == TupleToStr(GetPixel(guess_image, x, y))
        IN  IF pixel_color_hex = Upper(spec.correct_location_color)
            THEN [letter |-> guess[k], in_word |-> TRUE, in_correct_place |-> TRUE]
            ELSE IF pixel_color_hex = Upper(spec.incorrect_location_color)
            THEN [letter |-> guess[k], in_word |-> TRUE, in_correct_place |-> FALSE]
            ELSE Letter(guess[k])]

\* A decoder that samples the centre of each block, where the letter is
\* drawn.
ProcessImageCentre(spec, guess, guess_image) ==
    GradeAt(spec, guess, guess_image,
            spec.block_width \div 2, spec.block_height \div 2)

\* Bot._process_image: one Letter per character of the guess, graded by the
\* colour of the pixel sampled in the character's block.
ProcessImage(spec, guess, guess_image) ==
    GradeAt(spec, guess, guess_image, SampleX, SampleY)

\* The grey rule's guard: the letter is graded in_word somewhere in the
\* same guess.
IsPositiveSomewhere(c, guess_results) ==
    \E k \in 1..Len(guess_results) :
        c = guess_results[k].letter /\ is_in_word(guess_results[k])

\* The rules without rule 2: a letter that is not in its correct place is
\* handled as a grey one.
RuleKeepsNoYellow(word, k, guess_results) ==
    LET feedback == guess_results[k]
        char_in_guess == feedback.letter
    IN  IF is_in_correct_place(feedback)
        THEN word[k] = char_in_guess
        ELSE ~In(char_in_guess, word)

\* The rules without rule 1: a letter in its correct place eliminates
\* nothing.
RuleKeepsNoGreen(word, k, guess_results) ==
    LET feedback == guess_results[k]
        char_in_guess == feedback.letter
    IN  IF is_in_correct_place(feedback)
        THEN TRUE
        ELSE IF is_in_word(feedback)
        THEN ~(~In(char_in_guess, word) \/ word[k] = char_in_guess)
        ELSE ~(~IsPositiveSomewhere(char_in_guess, guess_results)
               /\ In(char_in_guess, word))

\* One feedback entry's check of one word (rules 1 to 3): TRUE when the
\* entry does not eliminate the word.
RuleKeeps(word, k, guess_results) ==
    LET feedback == guess_results[k]
        char_in_guess == feedback.letter
    IN  IF is_in_correct_place(feedback)
        THEN word[k] = char_in_guess
        ELSE IF is_in_word(feedback)
        THEN ~(~In(char_in_guess, word) \/ word[k] = char_in_guess)
        ELSE ~(~IsPositiveSomewhere(char_in_guess, guess_results)
               /\ In(char_in_guess, word))

\* is_still_possible after the inner loop: no entry eliminated the word.
IsStillPossible(word, guess_results) ==
    \A k \in 1..Len(guess_results) : RuleKeeps(word, k, guess_results)

\* The filter without the removal of the guess.
FilterWordsNoRemove(word_list, guess, guess_results) ==
    LET Keep(word) == IsStillPossible(word, guess_results)
    IN  SelectSeq(word_list, Keep)

\* record_guess_results after the image is processed: the guess removed,
\* then new_possible_words.
FilterWords(word_list, guess, guess_results) ==
    LET remaining == IF In(guess, word_list) THEN RemoveFirst(word_list, guess)
                     ELSE word_list
        Keep(word) == IsStillPossible(word, guess_results)
    IN  SelectSeq(remaining, Keep)

\* Bot.record_guess_results: the new word_list.
RecordGuessResults(spec, word_list, guess, guess_image) ==
    FilterWords(word_list, guess, ProcessImage(spec, guess, guess_image))

\* -------------------------------------------------------------- GameEngine

\* Number of positions of s that hold x.
Count(x, s) == Cardinality({k \in 1..Len(s) : s[k] = x})

\* A scorer that counts letters: a letter out of place is in_word only while
\* the target has occurrences of it left after the exact matches and the
\* earlier out-of-place ones.
SetFeedbackCounted(guess, target_word) ==
    LET Exact(j) == guess[j] = target_word[j]
        Exacts(c) == Cardinality({k \in 1..Len(guess) : guess[k] = c /\ Exact(k)})
        Earlier(j) == Cardinality({k \in 1..(j-1) : guess[k] = guess[j] /\ ~Exact(k)})
    IN  [correct |-> \A j \in 1..Len(guess) : Exact(j),
         letters |-> [j \in 1..Len(guess) |->
                        [letter |-> guess[j],
                         in_word |-> \/ Exact(j)
                                     \/ Earlier(j) + Exacts(guess[j])
                                            < Count(guess[j], target_word),
                         in_correct_place |-> Exact(j)]]]

\* A scorer whose correct is switched off only by a letter that the target
\* does not hold.
SetFeedbackAnyPlace(guess, target_word) ==
    [correct |-> \A j \in 1..Len(guess) : In(guess[j], target_word),
     letters |-> [j \in 1..Len(guess) |->
                    [letter |-> guess[j],
                     in_word |-> In(guess[j], target_word),
                     in_correct_place |-> guess[j] = target_word[j]]]]

\* GameEngine._set_feedback: (correct, letters).
SetFeedback(guess, target_word) ==
    [correct |-> \A j \in 1..Len(guess) : guess[j] = target_word[j],
     letters |-> [j \in 1..Len(guess) |->
                    [letter |-> guess[j],
                     in_word |-> In(guess[j], target_word),
                     in_correct_place |-> guess[j] = target_word[j]]]]

MAX_GUESSES == 6

\* len(known_letters): [None, None, None, None, None]
KnownLen == 5

None == "None"

\* ------------------------------------------------------------ the inputs

\* Word-list files: sequences of lines as written on disk.
TrapFile ==
    << <<"c","r","a","n","e","\n">>, <<"b","r","a","k","e","\n">>,
       <<"g","r","a","p","e","\n">>, <<"f","r","a","m","e","\n">>,
       <<"t","r","a","d","e","\n">>, <<"e","r","a","s","e">> >>

FiveFile ==
    << <<"c","r","a","n","e","\n">>, <<"b","r","a","k","e","\n">>,
       <<"g","r","a","p","e","\n">>, <<"f","r","a","m","e","\n">>,
       <<"t","r","a","d","e">> >>

DupFile ==
    << <<"C","R","A","N","E","\n">>, <<"C","R","A","T","E","\n">>,
       <<"C","R","A","N","E","\n">>, <<"G","R","A","P","E","\n">> >>

AlarmFile ==
    << <<"A","R","R","A","Y","\n">>, <<"A","L","A","R","M","\n">>,
       <<"L","A","R","V","A","\n">>, <<" ","C","R","A","N","E"," ","\n">> >>

CloudFile ==
    << <<"c","l","o","u","d","\n">>, <<"b","r","a","k","e","\n">>,
       <<"c","r","a","n","e">> >>

CrateFile ==
    << <<"C","R","A","N","E","\n">>, <<"C","R","A","T","E","\n">>,
       <<"G","R","A","P","E">> >>

EchoFile ==
    << <<"c","l","o","u","d","\n">>, <<"b","r","a","k","e","\n">>,
       <<"c","l","o","u","d">> >>

Files == {DupFile, AlarmFile, CloudFile, CrateFile, EchoFile}

\* The target_word arguments of play(): None, or a word.
TargetArgs ==
    {None, <<"c","r","a","n","e">>, <<"A","L","A","R","M">>,
     <<"W","O","R","D","Y">>}

\* ----------------------------------------------------------------- state

VARIABLES
    bot_file,          \* the file Bot.__init__ reads
    engine_file,       \* the file play() reads
    display_spec,      \* GameEngine.display_spec
    bot_display_spec,  \* Bot.display_spec
    bot_word_list,     \* Bot.word_list
    prev_guesses,      \* GameEngine.prev_guesses
    err_input,         \* GameEngine.err_input
    err_guess,         \* GameEngine.err_guess
    message,           \* what the validation of this play() printed last
    word_list,         \* play(): word_list
    target_word,       \* play(): target_word
    known_letters,     \* play(): known_letters
    unused_letters,    \* play(): unused_letters
    i,                 \* play(): the loop variable
    guess,             \* play(): guess
    correct,           \* play(): correct
    results,           \* play(): results
    img,               \* play(): img
    guess_results,     \* record_guess_results(): guess_results
    pc,                \* where play() stands
    outcome,           \* how the last play() ended
    games,             \* number of play() calls so far
    requested,         \* make_guess calls of this play()
    scored,            \* _set_feedback calls of this play()
    delivered,         \* record_guess_results calls of this play()
    rounds,            \* the feedback of each completed round of this play()
    at_start,          \* Bot.word_list when this play() was called
    bot_seen,          \* <<guess, target>> of every round this Bot recorded
    before             \* Bot.word_list before the last record_guess_results

vars == <<bot_file, engine_file, display_spec, bot_display_spec, bot_word_list,
          prev_guesses, err_input, err_guess, message, word_list, target_word,
          known_letters, unused_letters, i, guess, correct, results, img,
          guess_results, pc, outcome, games, requested, scored, delivered,
          rounds, at_start, bot_seen, before>>

NoImage == [width |-> 0, height |-> 0, background |-> <<0, 0, 0>>, pasted |-> <<>>]

\* The state after ge = GameEngine() and bot = Bot(bf, bs), for the files
\* bf and ef that the Bot and play() read.
Constructed(bf, ef, bs) ==
    /\ bot_file = bf
    /\ engine_file = ef
    /\ display_spec = DisplaySpecification
    /\ bot_display_spec = bs
    /\ bot_word_list = LoadWords(bot_file)
    /\ prev_guesses = <<>>
    /\ err_input = FALSE
    /\ err_guess = FALSE
    /\ message = "None"
    /\ word_list = <<>>
    /\ target_word = None
    /\ known_letters = <<>>
    /\ unused_letters = {}
    /\ i = 0
    /\ guess = <<>>
    /\ correct = FALSE
    /\ results = <<>>
    /\ img = NoImage
    /\ guess_results = <<>>
    /\ pc = "idle"
    /\ outcome = "None"
    /\ games = 0
    /\ requested = 0
    /\ scored = 0
    /\ delivered = 0
    /\ rounds = <<>>
    /\ at_start = <<>>
    /\ bot_seen = <<>>
    /\ before = <<>>

\* ------------------------------------------------------------------ play()

\* A target check that accepts every word.
TargetMissingUnchecked(t, target, wl) == FALSE

\* The check of an explicit target: `target_word not in word_list`, made
\* only when a target_word was passed.
TargetMissing(t, target, wl) == t # None /\ ~In(target, wl)

\* play(bot, word_list_file, target_word) up to the first round: the word
\* list is read, the target fixed (a random word of the list when None),
\* and an explicit target outside the list ends the call with err_input.
Play ==
    /\ pc = "idle"
    /\ games < MaxGames
    /\ \E t \in TargetArgs : \E k \in 1..Len(engine_file) :
          LET wl == LoadWords(engine_file)
              target == IF t = None THEN Upper(wl[k]) ELSE Upper(t)
          IN  /\ t # None => k = 1
              /\ word_list' = wl
              /\ known_letters' = [j \in 1..KnownLen |-> None]
              /\ unused_letters' = {}
              /\ target_word' = target
              /\ IF TargetMissing(t, target, wl)
                 THEN /\ err_input' = TRUE
                      /\ outcome' = "SetupError"
                      /\ pc' = "idle"
                      /\ i' = i
                 ELSE /\ err_input' = err_input
                      /\ outcome' = "None"
                      /\ pc' = "AwaitingGuess"
                      /\ i' = 1
    /\ games' = games + 1
    /\ requested' = 0
    /\ scored' = 0
    /\ delivered' = 0
    /\ rounds' = <<>>
    /\ at_start' = bot_word_list
    /\ message' = "None"
    /\ UNCHANGED <<bot_file, engine_file, display_spec, bot_display_spec,
                   bot_word_list, prev_guesses, err_guess, guess, correct,
                   results, img, guess_results, bot_seen, before>>

\* guess = bot.make_guess(): random.choice(self.word_list), which raises
\* IndexError on an empty list and so ends play().
MakeGuess ==
    /\ pc = "AwaitingGuess"
    /\ IF bot_word_list = <<>>
       THEN /\ outcome' = "EmptyCandidates"
            /\ pc' = "idle"
            /\ UNCHANGED <<guess, requested>>
       ELSE /\ \E k \in 1..Len(bot_word_list) : guess' = bot_word_list[k]
            /\ requested' = requested + 1
            /\ pc' = "Validating"
            /\ UNCHANGED outcome
    /\ UNCHANGED <<bot_file, engine_file, display_spec, bot_display_spec,
                   bot_word_list, prev_guesses, err_input, err_guess,
                   word_list, target_word, known_letters, unused_letters, i,
                   correct, results, img, guess_results, games, scored,
                   delivered, rounds, bot_seen, before,
                   at_start, message>>

\* The letter loop of the validation: some letter of the guess is in
\* unused_letters, or differs from a known letter at its position.
LetterError(g, known, unused) ==
    \E j \in 1..Len(g) :
        \/ g[j] \in unused
        \/ known[j] # None /\ g[j] # known[j]

\* The checks without the one against prev_guesses.
GuessRejectedNoRepeat(g, wl, prev, err) ==
    err \/ ~In(g, wl)

\* The checks of a validation that starts from a cleared err_guess.
GuessRejectedFresh(g, wl, prev, err) ==
    ~In(g, wl) \/ In(g, prev)

\* err_guess after the first two checks of the guess: set when the guess
\* is not in the word list, else when it is a previous guess; never reset.
GuessRejected(g, wl, prev, err) ==
    err \/ ~In(g, wl) \/ In(g, prev)

\* The validation of the guess: word list, previous guesses, err_guess,
\* then the append to prev_guesses and the letter loop.
Validate ==
    /\ pc = "Validating"
    /\ IF GuessRejected(guess, word_list, prev_guesses, err_guess)
       THEN /\ err_guess' = TRUE
            /\ message' = IF ~In(guess, word_list) THEN "NotInWordList"
                          ELSE IF In(guess, prev_guesses) THEN "Repeated"
                          ELSE message
            /\ outcome' = "GuessError"
            /\ pc' = "idle"
            /\ UNCHANGED prev_guesses
       ELSE /\ prev_guesses' = Append(prev_guesses, guess)
            /\ IF LetterError(guess, known_letters, unused_letters)
               THEN /\ err_guess' = TRUE
                    /\ message' = "LetterRule"
                    /\ outcome' = "GuessError"
                    /\ pc' = "idle"
               ELSE /\ pc' = "Scoring"
                    /\ UNCHANGED <<err_guess, message, outcome>>
    /\ UNCHANGED <<bot_file, engine_file, display_spec, bot_display_spec,
                   bot_word_list, err_input, word_list, target_word,
                   known_letters, unused_letters, i, guess, correct, results,
                   img, guess_results, games, requested, scored, delivered,
                   rounds, at_start, bot_seen, before>>

\* correct, results = self._set_feedback(guess, target_word)
Score ==
    /\ pc = "Scoring"
    /\ correct' = SetFeedback(guess, target_word).correct
    /\ results' = SetFeedback(guess, target_word).letters
    /\ scored' = scored + 1
    /\ pc' = "Rendering"
    /\ UNCHANGED <<bot_file, engine_file, display_spec, bot_display_spec,
                   bot_word_list, prev_guesses, err_input, err_guess,
                   word_list, target_word, known_letters, unused_letters, i,
                   guess, img, guess_results, outcome, games, requested,
                   delivered, rounds, bot_seen, before,
                   at_start, message>>

\* img = self._format_results(results)
Render ==
    /\ pc = "Rendering"
    /\ img' = FormatResults(display_spec, results)
    /\ pc' = "Delivering"
    /\ UNCHANGED <<bot_file, engine_file, display_spec, bot_display_spec,
                   bot_word_list, prev_guesses, err_input, err_guess,
                   word_list, target_word, known_letters, unused_letters, i,
                   guess, correct, results, guess_results, outcome, games,
                   requested, scored, delivered, rounds, bot_seen, before,
                   at_start, message>>

\* bot.record_guess_results(guess, img), then the end of the loop body:
\* return when correct, else the next value of range(1, MAX_GUESSES), and
\* the return after the loop when there is none.
Deliver ==
    /\ pc = "Delivering"
    /\ before' = bot_word_list
    /\ guess_results' = ProcessImage(bot_display_spec, guess, img)
    /\ bot_word_list' =
           RecordGuessResults(bot_display_spec, bot_word_list, guess, img)
    /\ delivered' = delivered + 1
    /\ rounds' = Append(rounds, results)
    /\ bot_seen' = Append(bot_seen, <<guess, target_word>>)
    /\ IF correct
       THEN /\ outcome' = "Won"
            /\ pc' = "idle"
            /\ i' = i
       ELSE IF i + 1 < MAX_GUESSES
       THEN /\ i' = i + 1
            /\ pc' = "AwaitingGuess"
            /\ UNCHANGED outcome
       ELSE /\ outcome' = "Exhausted"
            /\ pc' = "idle"
            /\ i' = i
    /\ UNCHANGED <<bot_file, engine_file, display_spec, bot_display_spec,
                   prev_guesses, err_input, err_guess, word_list, target_word,
                   known_letters, unused_letters, guess, correct, results,
                   img, games, requested, scored,
                   at_start, message>>

\* bot = Bot(words_file, spec) again, between two games.
NewBot ==
    /\ pc = "idle"
    /\ games >= 1
    /\ games < MaxGames
    /\ bot_word_list # LoadWords(bot_file) \/ bot_seen # <<>>
    /\ bot_word_list' = LoadWords(bot_file)
    /\ bot_seen' = <<>>
    /\ before' = <<>>
    /\ UNCHANGED <<bot_file, engine_file, display_spec, bot_display_spec,
                   prev_guesses, err_input, err_guess, word_list, target_word,
                   known_letters, unused_letters, i, guess, correct, results,
                   img, guess_results, pc, outcome, games, requested, scored,
                   delivered, rounds,
                   at_start, message>>

Init ==
    \E bf \in Files, ef \in Files, bs \in DisplaySpecs : Constructed(bf, ef, bs)

\* One word list long enough for the round limit to be reached.
InitTrap ==
    \E bs \in DisplaySpecs : Constructed(TrapFile, TrapFile, bs)

Next == Play \/ MakeGuess \/ Validate \/ Score \/ Render \/ Deliver \/ NewBot

Spec == Init /\ [][Next]_vars

SpecTrap == InitTrap /\ [][Next]_vars

\* One word list of as many words as play() runs rounds.
InitFive ==
    \E bs \in DisplaySpecs : Constructed(FiveFile, FiveFile, bs)

SpecFive == InitFive /\ [][Next]_vars

\* -------------------------------------------- one round, every small input

\* Every word of PureLen letters.
PureWords == [1..PureLen -> Letters]

RECURSIVE SetToSeq(_)
SetToSeq(S) ==
    IF S = {} THEN <<>>
    ELSE LET x == CHOOSE x \in S : TRUE IN <<x>> \o SetToSeq(S \ {x})

AllWords == SetToSeq(PureWords)

\* Candidate lists: empty, every word once, every word but one, and every
\* word once with one word a second time.
PureLists ==
    {<<>>, AllWords}
    \cup {RemoveFirst(AllWords, w) : w \in PureWords}
    \cup {Append(AllWords, w) : w \in PureWords}

\* Every grading of a guess: each letter exact, present or absent.
Grades == {"exact", "present", "absent"}

Graded(g, grading) ==
    [k \in 1..Len(g) |->
        [letter |-> g[k],
         in_word |-> grading[k] # "absent",
         in_correct_place |-> grading[k] = "exact"]]

\* A state in the middle of a round, with nothing else going on.
MidRound(ds, wl, g, t) ==
    /\ bot_file = <<>>
    /\ engine_file = <<>>
    /\ display_spec = ds
    /\ bot_display_spec = ds
    /\ bot_word_list = wl
    /\ prev_guesses = <<g>>
    /\ err_input = FALSE
    /\ err_guess = FALSE
    /\ message = "None"
    /\ word_list = AllWords
    /\ target_word = t
    /\ known_letters = [j \in 1..KnownLen |-> None]
    /\ unused_letters = {}
    /\ i = 1
    /\ guess = g
    /\ img = NoImage
    /\ guess_results = <<>>
    /\ outcome = "None"
    /\ games = 1
    /\ requested = 1
    /\ delivered = 0
    /\ rounds = <<>>
    /\ at_start = wl
    /\ bot_seen = <<>>
    /\ before = <<>>

\* A validated guess about to be scored against a target.
InitRound ==
    \E wl \in PureLists, g \in PureWords, t \in PureWords :
        /\ MidRound(DisplaySpecification, wl, g, t)
        /\ correct = FALSE
        /\ results = <<>>
        /\ scored = 0
        /\ pc = "Scoring"

\* A graded guess about to be rendered, for every grading.
InitFilter ==
    \E ds \in DisplaySpecs, wl \in PureLists, g \in PureWords,
       grading \in [1..PureLen -> Grades] :
        /\ MidRound(ds, wl, g, None)
        /\ correct = \A k \in 1..PureLen : grading[k] = "exact"
        /\ results = Graded(g, grading)
        /\ scored = 1
        /\ pc = "Rendering"

\* bot.record_guess_results(guess, img), alone.
Record ==
    /\ pc = "Delivering"
    /\ before' = bot_word_list
    /\ guess_results' = ProcessImage(bot_display_spec, guess, img)
    /\ bot_word_list' =
           RecordGuessResults(bot_display_spec, bot_word_list, guess, img)
    /\ delivered' = delivered + 1
    /\ pc' = "Recorded"
    /\ UNCHANGED <<bot_file, engine_file, display_spec, bot_display_spec,
                   prev_guesses, err_input, err_guess, word_list, target_word,
                   known_letters, unused_letters, i, guess, correct, results,
                   img, outcome, games, requested, scored, rounds, bot_seen,
                   at_start, message>>

\* bot.record_guess_results(guess, img) a second time, with the same guess
\* and the same image.
RecordAgain ==
    /\ pc = "Recorded"
    /\ before' = bot_word_list
    /\ guess_results' = ProcessImage(bot_display_spec, guess, img)
    /\ bot_word_list' =
           RecordGuessResults(bot_display_spec, bot_word_list, guess, img)
    /\ delivered' = delivered + 1
    /\ pc' = "RecordedAgain"
    /\ UNCHANGED <<bot_file, engine_file, display_spec, bot_display_spec,
                   prev_guesses, err_input, err_guess, word_list, target_word,
                   known_letters, unused_letters, i, guess, correct, results,
                   img, outcome, games, requested, scored, rounds, bot_seen,
                   at_start, message>>

NextRound == Score \/ Render \/ Record

NextFilter == Render \/ Record \/ RecordAgain

SpecRound == InitRound /\ [][NextRound]_vars

SpecFilter == InitFilter /\ [][NextFilter]_vars

\* ------------------------------------------------------------ the claims

\* record_guess_results has just returned.
JustDelivered ==
    \/ pc = "Recorded"
    \/ delivered >= 1 /\ pc = "AwaitingGuess"
    \/ delivered >= 1 /\ pc = "idle" /\ outcome \in {"Won", "Exhausted"}
          /\ bot_seen # <<>>

\* A word is consistent with a feedback: at every position, the exact,
\* present and absent rules, the absent rule waived for a letter that the
\* same feedback grades present or exact somewhere.
Consistent(w, fb) ==
    \A k \in 1..Len(fb) :
        LET c == fb[k].letter
        IN  IF fb[k].in_correct_place THEN w[k] = c
            ELSE IF fb[k].in_word THEN w[k] # c /\ In(c, w)
            ELSE \/ ~In(c, w)
                 \/ \E m \in 1..Len(fb) :
                        /\ fb[m].letter = c
                        /\ fb[m].in_word \/ fb[m].in_correct_place

\* C1: after record_guess_results, the candidates are exactly the words of
\* the previous candidates, other than the guess, that are consistent with
\* the feedback; for every candidate list, guess and feedback.
C1_FilterExact ==
    pc = "Recorded" =>
        Range(bot_word_list)
            = {w \in Range(before) \ {guess} : Consistent(w, results)}

\* C2 as stated: whenever the target is a candidate before the filtering
\* with the feedback scored against it, it is a candidate after it.
C2_TargetKeptAlways ==
    (pc = "Recorded" /\ In(target_word, before))
        => In(target_word, bot_word_list)

\* C2 as amended: the target stays a candidate through the filtering with
\* the feedback scored against it, for every guess other than the target.
C2_TargetKept ==
    (pc = "Recorded" /\ In(target_word, before) /\ guess # target_word)
        => In(target_word, bot_word_list)

\* C2's case: a wrong guess was filtered, other candidates were eliminated
\* and the target was kept.
C2_Witness ==
    /\ pc = "Recorded"
    /\ guess # target_word
    /\ In(target_word, before)
    /\ In(guess, before)
    /\ In(target_word, bot_word_list)
    /\ Len(bot_word_list) + 1 < Len(before)
    /\ \E k \in 1..Len(results) : results[k].in_word /\ ~results[k].in_correct_place

\* The words of the Bot's dictionary that were not guessed and that every
\* recorded guess scores as it scored the target of its round.
StillPossibleWords ==
    {w \in Range(LoadWords(bot_file)) :
        \A r \in 1..Len(bot_seen) :
            /\ w # bot_seen[r][1]
            /\ SetFeedback(bot_seen[r][1], w).letters
                   = SetFeedback(bot_seen[r][1], bot_seen[r][2]).letters}

\* C3: between the rounds of the first game of a Bot that decodes with the
\* engine's display specification, the candidates are exactly the words of
\* the dictionary consistent with all the feedback seen so far.
C3_CandidatesExact ==
    (games = 1 /\ bot_display_spec = display_spec
        /\ pc \in {"idle", "AwaitingGuess"})
        => Range(bot_word_list) = StillPossibleWords

\* C4: every record_guess_results leaves candidates that are among those
\* before the call, no more of them, among the dictionary's words, and
\* without the guess just played.
C4_ShrinksWithoutGuess ==
    JustDelivered =>
        /\ Range(bot_word_list) \subseteq Range(before)
        /\ Len(bot_word_list) <= Len(before)
        /\ Range(bot_word_list) \subseteq Range(LoadWords(bot_file))
        /\ ~In(guess, bot_word_list)

C6_RoundTrip ==
    pc = "Recorded" => guess_results = results

\* C6's case: a feedback with an exact letter and a present one that is not
\* exact went through the image under the caller-provided specification.
C6_Witness ==
    /\ pc = "Recorded"
    /\ display_spec = CustomSpecification
    /\ \E k \in 1..Len(results) : results[k].in_correct_place
    /\ \E k \in 1..Len(results) :
          results[k].in_word /\ ~results[k].in_correct_place
    /\ guess_results = results

\* C7: a game that ends Exhausted has requested, scored and delivered
\* exactly MAX_GUESSES (6) guesses.
C7_SixRounds ==
    outcome = "Exhausted" =>
        /\ requested = MAX_GUESSES
        /\ scored = MAX_GUESSES
        /\ delivered = MAX_GUESSES

\* A guess goes against what the earlier rounds of the game established:
\* it uses a letter graded absent (and nowhere present or exact in that
\* guess), or it has another letter where an exact match was found.
ContradictsRounds(g, rs) ==
    \E r \in 1..Len(rs) : \E k \in 1..Len(rs[r]) :
        LET f == rs[r][k]
        IN  \/ f.in_correct_place /\ g[k] # f.letter
            \/ /\ ~f.in_word /\ ~f.in_correct_place
               /\ ~\E m \in 1..Len(rs[r]) :
                     /\ rs[r][m].letter = f.letter
                     /\ rs[r][m].in_word \/ rs[r][m].in_correct_place
               /\ In(f.letter, g)

\* C8: no guess that goes against the feedback of an earlier round of the
\* game gets past the validation to be scored.
C8_ContradictionRejected ==
    pc = "Scoring" => ~ContradictsRounds(guess, rounds)

\* The guess being validated fails one of the first two checks.
BadGuess ==
    pc = "Validating" /\ (~In(guess, word_list) \/ In(guess, prev_guesses))

\* C9: a guess outside the word list or repeating an earlier guess ends the
\* game with a guess error at once: it is not appended to prev_guesses, not
\* scored, rendered or delivered, the candidates stay as they are, and no
\* other guess is requested; a game ended so has scored every guess it
\* requested but the last.
C9_BadGuessAborts ==
    /\ [][BadGuess =>
            /\ pc' = "idle"
            /\ outcome' = "GuessError"
            /\ err_guess'
            /\ prev_guesses' = prev_guesses
            /\ bot_word_list' = bot_word_list
            /\ <<requested, scored, delivered>>' = <<requested, scored, delivered>>
            /\ img' = img]_vars
    /\ [](outcome = "GuessError" =>
            /\ pc = "idle"
            /\ requested = scored + 1
            /\ delivered = scored)

\* C9's case: a game was ended by a guess that repeats an earlier one.
C9_Witness ==
    /\ outcome = "GuessError"
    /\ message = "Repeated"
    /\ In(guess, word_list)
    /\ In(guess, prev_guesses)

\* C10 as stated: in a game whose target was a candidate at its start, the
\* candidates are not empty when a guess is requested.
C10_NeverEmptyAlways ==
    (pc = "AwaitingGuess" /\ In(target_word, at_start))
        => bot_word_list # <<>>

\* C10 as amended: so it is when the Bot decodes with the display
\* specification the engine renders with; and make_guess on an empty list
\* fails, ending play() without a guess.
C10_NeverEmpty ==
    /\ []((pc = "AwaitingGuess" /\ In(target_word, at_start)
            /\ bot_display_spec = display_spec)
                => bot_word_list # <<>>)
    /\ [][(pc = "AwaitingGuess" /\ bot_word_list = <<>>) =>
            /\ pc' = "idle"
            /\ outcome' = "EmptyCandidates"
            /\ guess' = guess
            /\ requested' = requested]_vars

\* C10's case: a guess is requested in a later round, of candidates that
\* the earlier rounds have cut down and that still hold the target.
C10_Witness ==
    /\ pc = "AwaitingGuess"
    /\ i >= 2
    /\ bot_display_spec = display_spec
    /\ In(target_word, at_start)
    /\ Len(bot_word_list) + 1 < Len(at_start)
    /\ In(target_word, bot_word_list)

\* The steps of a round follow one another: a guess is validated after it
\* was requested, scored after it was validated, rendered after it was
\* scored, delivered after it was rendered, and a guess is requested only
\* when every earlier guess of the game has been delivered.
C11_StepOrder ==
    /\ [][/\ pc' = "Validating" => pc = "AwaitingGuess"
          /\ pc' = "Scoring" => pc = "Validating"
          /\ pc' = "Rendering" => pc = "Scoring"
          /\ pc' = "Delivering" => pc = "Rendering"
          /\ pc' = "AwaitingGuess" => pc \in {"idle", "Delivering"}
          /\ requested' = requested + 1 =>
                pc = "AwaitingGuess" /\ delivered = requested
          /\ scored' = scored + 1 => pc = "Scoring" /\ scored' = requested
          /\ delivered' = delivered + 1 =>
                pc = "Delivering" /\ delivered' = scored]_vars
    /\ [](/\ delivered <= scored
          /\ scored <= requested
          /\ requested <= delivered + 1
          /\ pc = "AwaitingGuess" => delivered = requested)

\* A game ends Won with the round of the target: the guess of a game's last
\* round is the target, the round was delivered, no guess was requested
\* after it, and no earlier round of the game was all exact.
C11_WonOnlyAtTarget ==
    [](outcome = "Won" =>
          /\ pc = "idle"
          /\ guess = target_word
          /\ correct
          /\ requested = delivered
          /\ Len(rounds) = delivered
          /\ rounds[Len(rounds)] = results
          /\ \A r \in 1..(Len(rounds) - 1) :
                \E k \in 1..Len(rounds[r]) : ~rounds[r][k].in_correct_place)

\* C11: in each round the steps occur in the order requested, validated,
\* scored, rendered, delivered, and the next guess is requested only after
\* the delivery; a round whose guess equals the target is validated, scored
\* correct and delivered, ends the game Won, and no game is Won otherwise.
C11_OrderAndWon ==
    /\ C11_StepOrder
    /\ C11_WonOnlyAtTarget
    /\ [][(pc = "Validating" /\ guess = target_word) => pc' = "Scoring"]_vars
    /\ [](pc \in {"Rendering", "Delivering"} =>
            (correct <=> guess = target_word))
    /\ [][(pc = "Delivering" /\ guess = target_word) =>
            /\ delivered' = delivered + 1
            /\ outcome' = "Won"
            /\ pc' = "idle"
            /\ requested' = requested]_vars

\* C12: record_guess_results applied a second time, with the same guess and
\* the same feedback, to the candidates that its first application left,
\* leaves them as they are; for every candidate list, guess and feedback.
C12_Idempotent ==
    pc = "RecordedAgain" => bot_word_list = before

\* C13: for every guess and target of the same length, the scorer's correct
\* is true exactly when every letter is graded in_correct_place, which is
\* exactly when the guess equals the target.
C13_CorrectIffEqual ==
    pc \in {"Rendering", "Delivering", "Recorded"} =>
        /\ correct <=> \A j \in 1..Len(results) : results[j].in_correct_place
        /\ correct <=> guess = target_word
        /\ guess = target_word =>
              \A j \in 1..Len(results) :
                  results[j].in_correct_place /\ results[j].in_word

\* C13's case: the target was scored against itself, correct with every
\* letter exact.
C13_Witness ==
    /\ pc = "Rendering"
    /\ guess = target_word
    /\ correct
    /\ Len(results) = Len(guess)
    /\ \A j \in 1..Len(results) : results[j].in_correct_place

\* in_correct_place implies in_word, for every Letter of a list.
ExactImpliesPresent(letters) ==
    \A k \in 1..Len(letters) : letters[k].in_correct_place => letters[k].in_word

\* C14: every Letter that exists, made by _set_feedback or by _process_image
\* from the image it was given, has in_word whenever it has
\* in_correct_place.
C14_ExactImpliesPresent ==
    /\ ExactImpliesPresent(results)
    /\ ExactImpliesPresent(guess_results)
    /\ \A r \in 1..Len(rounds) : ExactImpliesPresent(rounds[r])

\* C14's case: a wrong guess with an exact letter was scored, and the Bot
\* decoded the exact letter from the image.
C14_Witness ==
    /\ pc = "AwaitingGuess"
    /\ delivered >= 1
    /\ \E k \in 1..Len(results) :
          /\ results[k].in_correct_place /\ results[k].in_word
          /\ guess_results[k].in_correct_place /\ guess_results[k].in_word
    /\ \E k \in 1..Len(guess_results) : ~guess_results[k].in_word

\* C15: a play() whose target is not in the word list it read sets
\* err_input and ends before any round: no guess is requested, nothing is
\* scored or delivered, and the Bot's candidates and prev_guesses are as
\* they were before the call.
C15_SetupError ==
    /\ [][(games' = games + 1 /\ ~In(target_word', word_list')) =>
            /\ err_input'
            /\ outcome' = "SetupError"
            /\ pc' = "idle"
            /\ requested' = 0 /\ scored' = 0 /\ delivered' = 0
            /\ bot_word_list' = bot_word_list
            /\ prev_guesses' = prev_guesses]_vars
    /\ [](outcome = "SetupError" =>
            /\ pc = "idle"
            /\ err_input
            /\ ~In(target_word, word_list)
            /\ requested = 0 /\ scored = 0 /\ delivered = 0)

\* C15's case: after a game that was played, a play() with a target outside
\* the word list ended in the setup error, the candidates and prev_guesses
\* still those that the first game left.
C15_Witness ==
    /\ outcome = "SetupError"
    /\ games = 2
    /\ err_input
    /\ ~In(target_word, word_list)
    /\ prev_guesses # <<>>
    /\ bot_word_list # LoadWords(bot_file)
    /\ requested = 0

\* C16: the guess ARRAY scored against the target ALARM has its first R
\* (position 1) in_word and not in_correct_place, and its second R
\* (position 2) neither in_word nor in_correct_place.
C16_SecondRAbsent ==
    (/\ pc = "Rendering"
     /\ guess = <<"A","R","R","A","Y">>
     /\ target_word = <<"A","L","A","R","M">>) =>
        /\ results[2].letter = "R"
        /\ results[2].in_word /\ ~results[2].in_correct_place
        /\ results[3].letter = "R"
        /\ ~results[3].in_word /\ ~results[3].in_correct_place

\* The flags of a list of Letters, as "exact", "present" or "absent".
GradesOf(letters) ==
    [k \in 1..Len(letters) |->
        IF letters[k].in_correct_place /\ letters[k].in_word THEN "exact"
        ELSE IF letters[k].in_word /\ ~letters[k].in_correct_place THEN "present"
        ELSE IF ~letters[k].in_word /\ ~letters[k].in_correct_place THEN "absent"
        ELSE "other"]

\* The guess CRATE for the target CRANE has been scored and recorded by a
\* Bot that reads the engine's images, on candidates holding CRANE, CRATE
\* and GRAPE.
CrateScenario ==
    /\ pc = "AwaitingGuess"
    /\ delivered >= 1
    /\ guess = <<"C","R","A","T","E">>
    /\ target_word = <<"C","R","A","N","E">>
    /\ bot_display_spec = display_spec
    /\ {<<"C","R","A","N","E">>, <<"C","R","A","T","E">>,
        <<"G","R","A","P","E">>} \subseteq Range(before)

\* C17: the guess CRATE scored against the target CRANE is graded exact,
\* exact, exact, absent, exact, and recording it on candidates holding
\* CRANE, CRATE and GRAPE leaves CRANE and no other word.
C17_CrateLeavesCrane ==
    CrateScenario =>
        /\ GradesOf(results) = <<"exact", "exact", "exact", "absent", "exact">>
        /\ [k \in 1..Len(results) |-> results[k].letter] = guess
        /\ Range(bot_word_list) = {<<"C","R","A","N","E">>}
        /\ before = LoadWords(CrateFile) =>
               bot_word_list = << <<"C","R","A","N","E">> >>

\* C17's case: the scenario, on the candidates CRANE, CRATE, GRAPE.
C17_Witness ==
    /\ CrateScenario
    /\ before = LoadWords(CrateFile)
    /\ bot_word_list = << <<"C","R","A","N","E">> >>

\* All occurrences of a letter in one feedback carry the same in_word flag.
SameLetterSameFlag(fb) ==
    \A j, k \in 1..Len(fb) :
        fb[j].letter = fb[k].letter => fb[j].in_word = fb[k].in_word

\* The filter with rule 3's guard removed: a letter graded absent
\* eliminates every word that contains it.
KeepsUnguarded(word, fb) ==
    \A k \in 1..Len(fb) :
        LET c == fb[k].letter
        IN  IF fb[k].in_correct_place THEN word[k] = c
            ELSE IF fb[k].in_word THEN In(c, word) /\ word[k] # c
            ELSE ~In(c, word)

FilterUnguarded(wl, g, fb) ==
    LET remaining == IF In(g, wl) THEN RemoveFirst(wl, g) ELSE wl
        Keep(word) == KeepsUnguarded(word, fb)
    IN  SelectSeq(remaining, Keep)

NoGuessError ==
    /\ ~err_guess
    /\ outcome # "GuessError"
    /\ pc = "Validating" =>
          /\ In(guess, word_list)
          /\ ~In(guess, prev_guesses)
          /\ ~LetterError(guess, known_letters, unused_letters)

\* C19: in the first game of an engine, with the Bot and play() reading the
\* same word file (words repeated in it or not), every guess that reaches
\* the validation is in the word list and is not a previous guess, and the
\* game never ends with a guess error.
C19_NoGuessError ==
    (games = 1 /\ bot_file = engine_file) => NoGuessError

\* The same for a Bot that decodes with the display specification the
\* engine renders with.
C19_NoGuessErrorSameSpec ==
    (games = 1 /\ bot_file = engine_file /\ bot_display_spec = display_spec)
        => NoGuessError

DistinctWords == Cardinality(Range(word_list))

\* A played game ended, the first on its engine, the Bot and play()
\* having read the same word file.
FreshSharedGameOver ==
    /\ games = 1
    /\ bot_file = engine_file
    /\ pc = "idle"
    /\ outcome \notin {"None", "SetupError"}

\* Every record_guess_results of a game leaves fewer candidates than it
\* found.
C21_RoundShrinks ==
    [][delivered' = delivered + 1 =>
          Len(bot_word_list') < Len(bot_word_list)]_vars

\* C21 as stated: every delivered round leaves fewer candidates, and a
\* first game on a shared word list of N distinct words, N not above the
\* number of rounds that play() runs, ends Won within N rounds.
C21_WonWithinNAlways ==
    /\ C21_RoundShrinks
    /\ []((FreshSharedGameOver /\ DistinctWords <= MAX_GUESSES - 1) =>
            /\ outcome = "Won"
            /\ requested <= DistinctWords)

\* C21 as amended: so it is when the Bot decodes with the display
\* specification the engine renders with; each round that does not end
\* the game then takes at least one distinct word off the candidates.
C21_WonWithinN ==
    /\ C21_RoundShrinks
    /\ []((games = 1 /\ bot_file = engine_file
              /\ bot_display_spec = display_spec
              /\ outcome # "SetupError") =>
            /\ pc # "idle" =>
                  Cardinality(Range(bot_word_list)) + delivered <= DistinctWords
            /\ requested <= DistinctWords
            /\ (FreshSharedGameOver /\ DistinctWords <= MAX_GUESSES - 1) =>
                  outcome = "Won")

\* C21's case: a game on five distinct words was Won in the fifth round,
\* every round before it having taken one word off the candidates.
C21_Witness ==
    /\ FreshSharedGameOver
    /\ bot_display_spec = display_spec
    /\ DistinctWords = MAX_GUESSES - 1
    /\ outcome = "Won"
    /\ requested = DistinctWords
    /\ delivered = DistinctWords
    /\ bot_word_list = <<>>

====
